---------------------------- MODULE Spec2Model ----------------------------
(***************************************************************************)
(* AgTalk scraper pipeline: the collector (five_year_spider.py), the       *)
(* normalizer (clean_agtalk_posts.py) and the classifier                   *)
(* (roberta_sentiment.py).                                                 *)
(*                                                                         *)
(* Text is a sequence of Unicode code points (naturals).  The regular      *)
(* expressions of the source are translated one by one into matchers with  *)
(* the leftmost, greedy, backtracking semantics of Python's re module.     *)
(***************************************************************************)
EXTENDS Naturals, Integers, Sequences, FiniteSets, Bags, TLC

(***************************************************************************)
(* Characters                                                              *)
(***************************************************************************)

\* The printable ASCII characters in code-point order, 32 (space) to 126 (~);
\* the double quote, the backslash and the backtick are written by name.
Printable ==
  << " ", "!", "DQUOTE", "#", "$", "%", "&", "'", "(", ")", "*", "+", ",", "-", ".", "/",
     "0", "1", "2", "3", "4", "5", "6", "7", "8", "9", ":", ";", "<", "=", ">", "?",
     "@", "A", "B", "C", "D", "E", "F", "G", "H", "I", "J", "K", "L", "M", "N", "O",
     "P", "Q", "R", "S", "T", "U", "V", "W", "X", "Y", "Z", "[", "BACKSLASH", "]", "^", "_",
     "BACKTICK", "a", "b", "c", "d", "e", "f", "g", "h", "i", "j", "k", "l", "m", "n", "o",
     "p", "q", "r", "s", "t", "u", "v", "w", "x", "y", "z", "{", "|", "}", "~" >>

\* Python's ord() on the printable ASCII characters.
OrdTable ==
  [c \in {Printable[n] : n \in 1..Len(Printable)} |->
     31 + (CHOOSE n \in 1..Len(Printable) : Printable[n] = c)]

Ord(c) == OrdTable[c]

\* A string literal, written as a tuple of one-character strings.
Str(t) == [n \in 1..Len(t) |-> Ord(t[n])]

\* Code points written by number: control characters and non-ASCII ones.
Chr ==
  [ TAB |-> 9,
    LF |-> 10,
    NBSP |-> 160,          \* U+00A0 no-break space
    COPYRIGHT |-> 169,     \* U+00A9, the second half of mojibake e-acute
    A_TILDE |-> 195,       \* U+00C3, the first half of mojibake e-acute
    A_UMLAUT |-> 196,      \* U+00C4
    E_ACUTE |-> 233,       \* U+00E9
    O_CIRC |-> 244,        \* U+00F4
    RIGHT_QUOTE |-> 8217,  \* U+2019 right single quotation mark
    LOW9_QUOTE |-> 8218 ]  \* U+201A single low-9 quotation mark

\* The value At gives outside a text.
NoChar == 0 - 1

At(s, i) == IF i >= 1 /\ i <= Len(s) THEN s[i] ELSE NoChar

\* \d of a str pattern (Unicode decimal digits; among the code points up to
\* U+00FF and the two quotation marks above, the ASCII digits only).
IsDigit(c) == c \in 48..57

\* \s of a str pattern: str.isspace() over the same code points.
IsSpace(c) == c \in (9..13) \cup (28..32) \cup {133, 160}

\* \w of a str pattern: str.isalnum() or "_" over the same code points.
IsWord(c) ==
  c \in (48..57) \cup (65..90) \cup (97..122) \cup {95}
        \cup {170, 178, 179, 181, 185, 186, 188, 189, 190}
        \cup (192..214) \cup (216..246) \cup (248..255)

\* "." of a pattern compiled without DOTALL: any character but a newline.
IsDot(c) == c # NoChar /\ c # Chr.LF

\* \b between positions i-1 and i of s.
WordBoundary(s, i) == IsWord(At(s, i - 1)) # IsWord(At(s, i))

\* The literal lit occurs in s at position i.
StartsWith(s, i, lit) ==
  /\ i >= 1
  /\ i + Len(lit) - 1 <= Len(s)
  /\ \A k \in 1..Len(lit) : s[i + k - 1] = lit[k]

RECURSIVE DigitRun(_, _, _)
\* The number of digits at s[i..], at most max of them: a greedy \d{0,max}.
DigitRun(s, i, max) ==
  IF max = 0 \/ ~IsDigit(At(s, i)) THEN 0 ELSE 1 + DigitRun(s, i + 1, max - 1)

RECURSIVE SpaceRun(_, _)
\* A greedy \s* at s[i..].
SpaceRun(s, i) == IF IsSpace(At(s, i)) THEN 1 + SpaceRun(s, i + 1) ELSE 0

RECURSIVE NonSpaceRun(_, _)
\* A greedy \S* at s[i..].
NonSpaceRun(s, i) ==
  IF At(s, i) # NoChar /\ ~IsSpace(At(s, i)) THEN 1 + NonSpaceRun(s, i + 1) ELSE 0

RECURSIVE DotRun(_, _)
\* A greedy .* at s[i..].
DotRun(s, i) == IF IsDot(At(s, i)) THEN 1 + DotRun(s, i + 1) ELSE 0


(***************************************************************************)
(* clean_text_column, step by step                                         *)
(***************************************************************************)

\* A missing value of a dataframe cell (NaN).
Null == <<NoChar>>

\* series.astype(str): a missing value becomes the text "nan".
astype_str(x) == IF x = Null THEN Str(<<"n", "a", "n">>) ELSE x

\* str.encode("latin1", errors="ignore"): one byte per code point up to
\* U+00FF, nothing for the others.
encode_latin1(s) == SelectSeq(s, LAMBDA c : c <= 255)

\* Whether byte b may follow the lead byte of a UTF-8 sequence as its second byte.
Utf8Second(lead, b) ==
  CASE lead = 224 -> b \in 160..191
    [] lead = 237 -> b \in 128..159
    [] lead = 240 -> b \in 144..191
    [] lead = 244 -> b \in 128..143
    [] OTHER -> b \in 128..191

Utf8Cont(b) == b \in 128..191

RECURSIVE decode_utf8(_, _)
\* bytes.decode("utf-8", errors="ignore") from position i: a well-formed
\* sequence gives its code point, and the longest ill-formed prefix is skipped.
decode_utf8(b, i) ==
  IF i > Len(b) THEN <<>>
  ELSE LET b1 == b[i]
           b2 == At(b, i + 1)
           b3 == At(b, i + 2)
           b4 == At(b, i + 3)
       IN  CASE b1 < 128 -> <<b1>> \o decode_utf8(b, i + 1)
             [] b1 \in 194..223 ->
                  IF Utf8Cont(b2)
                    THEN <<(b1 - 192) * 64 + (b2 - 128)>> \o decode_utf8(b, i + 2)
                    ELSE decode_utf8(b, i + 1)
             [] b1 \in 224..239 ->
                  IF ~Utf8Second(b1, b2) THEN decode_utf8(b, i + 1)
                  ELSE IF ~Utf8Cont(b3) THEN decode_utf8(b, i + 2)
                  ELSE <<(b1 - 224) * 4096 + (b2 - 128) * 64 + (b3 - 128)>>
                         \o decode_utf8(b, i + 3)
             [] b1 \in 240..244 ->
                  IF ~Utf8Second(b1, b2) THEN decode_utf8(b, i + 1)
                  ELSE IF ~Utf8Cont(b3) THEN decode_utf8(b, i + 2)
                  ELSE IF ~Utf8Cont(b4) THEN decode_utf8(b, i + 3)
                  ELSE <<(b1 - 240) * 262144 + (b2 - 128) * 4096
                           + (b3 - 128) * 64 + (b4 - 128)>>
                         \o decode_utf8(b, i + 4)
             [] OTHER -> decode_utf8(b, i + 1)

\* x.encode("latin1", errors="ignore").decode("utf-8", errors="ignore")
fix_encoding(s) == decode_utf8(encode_latin1(s), 1)

\* r"\b\d{1,2}/\d{1,2}/\d{2,4}\s*\d{0,2}:?\d{0,2}" at position i: the length
\* of the match, 0 when there is none.
MatchDate(s, i) ==
  LET d1 == DigitRun(s, i, 2)
      p2 == i + d1 + 1
      d2 == DigitRun(s, p2, 2)
      p3 == p2 + d2 + 1
      d3 == DigitRun(s, p3, 4)
      p4 == p3 + d3
      sp == SpaceRun(s, p4)
      d4 == DigitRun(s, p4 + sp, 2)
      p5 == p4 + sp + d4
      co == IF At(s, p5) = Ord(":") THEN 1 ELSE 0
      d5 == DigitRun(s, p5 + co, 2)
  IN  IF /\ WordBoundary(s, i)
         /\ d1 >= 1 /\ At(s, i + d1) = Ord("/")
         /\ d2 >= 1 /\ At(s, p2 + d2) = Ord("/")
         /\ d3 >= 2
        THEN p5 + co + d5 - i
        ELSE 0

\* r"\b\d{1,2}:\d{2}\b" at position i.
MatchTime(s, i) ==
  LET d1 == DigitRun(s, i, 2)
  IN  IF /\ WordBoundary(s, i)
         /\ d1 >= 1 /\ At(s, i + d1) = Ord(":")
         /\ DigitRun(s, i + d1 + 1, 2) = 2
         /\ WordBoundary(s, i + d1 + 3)
        THEN d1 + 3
        ELSE 0

\* r"http\S+|www\S+" at position i.
HTTP == Str(<<"h", "t", "t", "p">>)
WWW == Str(<<"w", "w", "w">>)

MatchUrl(s, i) ==
  IF StartsWith(s, i, HTTP) /\ NonSpaceRun(s, i + Len(HTTP)) >= 1
    THEN Len(HTTP) + NonSpaceRun(s, i + Len(HTTP))
  ELSE IF StartsWith(s, i, WWW) /\ NonSpaceRun(s, i + Len(WWW)) >= 1
    THEN Len(WWW) + NonSpaceRun(s, i + Len(WWW))
  ELSE 0

\* r"Edited by .*" at position i.
EDITED_BY == Str(<<"E", "d", "i", "t", "e", "d", " ", "b", "y", " ">>)

MatchEdited(s, i) ==
  IF StartsWith(s, i, EDITED_BY)
    THEN Len(EDITED_BY) + DotRun(s, i + Len(EDITED_BY))
    ELSE 0

\* r"Attachments.*" at position i.
ATTACHMENTS == Str(<<"A", "t", "t", "a", "c", "h", "m", "e", "n", "t", "s">>)

MatchAttachments(s, i) ==
  IF StartsWith(s, i, ATTACHMENTS)
    THEN Len(ATTACHMENTS) + DotRun(s, i + Len(ATTACHMENTS))
    ELSE 0

\* The alternatives of (jpg|jpeg|png|pdf), in the order the pattern tries them.
FileExtensions ==
  << Str(<<"j", "p", "g">>), Str(<<"j", "p", "e", "g">>),
     Str(<<"p", "n", "g">>), Str(<<"p", "d", "f">>) >>

\* r"\.(jpg|jpeg|png|pdf)" at position j: the length of the match, 0 for none.
MatchExtension(s, j) ==
  IF At(s, j) # Ord(".") THEN 0
  ELSE LET hits == {k \in 1..Len(FileExtensions) : StartsWith(s, j + 1, FileExtensions[k])}
       IN  IF hits = {} THEN 0
           ELSE 1 + Len(FileExtensions[CHOOSE k \in hits : \A h \in hits : k <= h])

\* r"\S+\.(jpg|jpeg|png|pdf)" at position i: \S+ is greedy, so the match ends
\* at the last extension of the run of non-space characters.
MatchFile(s, i) ==
  LET run == NonSpaceRun(s, i)
      dots == {j \in (i + 1)..(i + run - 1) : At(s, j) = Ord(".") /\ MatchExtension(s, j) > 0}
  IN  IF dots = {} THEN 0
      ELSE LET j == CHOOSE d \in dots : \A e \in dots : e <= d
           IN  j - i + MatchExtension(s, j)

KB == Str(<<"K", "B">>)
DOWNLOADS == Str(<<"d", "o", "w", "n", "l", "o", "a", "d", "s">>)

\* r"\d+KB\s*-\s*\d+\s*downloads" at position i.
MatchDownloads(s, i) ==
  LET d1 == DigitRun(s, i, Len(s))
      p1 == i + d1 + 2
      p2 == p1 + SpaceRun(s, p1) + 1
      p3 == p2 + SpaceRun(s, p2)
      d2 == DigitRun(s, p3, Len(s))
      p4 == p3 + d2 + SpaceRun(s, p3 + d2)
  IN  IF /\ d1 >= 1 /\ StartsWith(s, i + d1, KB)
         /\ At(s, p2 - 1) = Ord("-")
         /\ d2 >= 1
         /\ StartsWith(s, p4, DOWNLOADS)
        THEN p4 + Len(DOWNLOADS) - i
        ELSE 0

\* r"\(.*?full\)\." at position i: .*? is lazy, so the match ends at the
\* first "full)." that no newline separates from the parenthesis.
FULL == Str(<<"f", "u", "l", "l", ")", ".">>)

MatchFull(s, i) ==
  IF At(s, i) # Ord("(") THEN 0
  ELSE LET ends == {k \in (i + 1)..Len(s) :
                      StartsWith(s, k, FULL) /\ DotRun(s, i + 1) >= k - i - 1}
       IN  IF ends = {} THEN 0
           ELSE (CHOOSE k \in ends : \A e \in ends : k <= e) - i + Len(FULL)

\* The mis-encoded apostrophe of the literal replacement (regex=False).
Artifact == <<Chr.LOW9_QUOTE, Chr.A_UMLAUT, Chr.O_CIRC>>

MatchArtifact(s, i) == IF StartsWith(s, i, Artifact) THEN Len(Artifact) ELSE 0

\* r"\s+\)" at position i.
MatchSpaceParen(s, i) ==
  LET sp == SpaceRun(s, i)
  IN  IF sp >= 1 /\ At(s, i + sp) = Ord(")") THEN sp + 1 ELSE 0

\* r"\(\s+" at position i.
MatchParenSpace(s, i) ==
  IF At(s, i) = Ord("(") /\ SpaceRun(s, i + 1) >= 1 THEN 1 + SpaceRun(s, i + 1) ELSE 0

\* r"\s+" at position i.
MatchSpaces(s, i) == SpaceRun(s, i)

\* The length of the match of pattern pat at position i of s, 0 for no match
\* (no pattern of the module matches the empty string).
MatchLen(pat, s, i) ==
  CASE pat = "date" -> MatchDate(s, i)
    [] pat = "time" -> MatchTime(s, i)
    [] pat = "url" -> MatchUrl(s, i)
    [] pat = "edited" -> MatchEdited(s, i)
    [] pat = "attachments" -> MatchAttachments(s, i)
    [] pat = "file" -> MatchFile(s, i)
    [] pat = "downloads" -> MatchDownloads(s, i)
    [] pat = "full" -> MatchFull(s, i)
    [] pat = "artifact" -> MatchArtifact(s, i)
    [] pat = "space_paren" -> MatchSpaceParen(s, i)
    [] pat = "paren_space" -> MatchParenSpace(s, i)
    [] pat = "spaces" -> MatchSpaces(s, i)

RECURSIVE ReplaceFrom(_, _, _, _)
\* re.sub / str.replace from position i on: the leftmost match is replaced
\* and the scan resumes after it.
ReplaceFrom(pat, repl, s, i) ==
  IF i > Len(s) THEN <<>>
  ELSE LET n == MatchLen(pat, s, i)
       IN  IF n > 0 THEN repl \o ReplaceFrom(pat, repl, s, i + n)
           ELSE <<s[i]>> \o ReplaceFrom(pat, repl, s, i + 1)

\* Series.str.replace(pat, repl) on one element.
str_replace(pat, repl, s) == ReplaceFrom(pat, repl, s, 1)

RECURSIVE lstrip(_)
lstrip(s) == IF s # <<>> /\ IsSpace(Head(s)) THEN lstrip(Tail(s)) ELSE s

RECURSIVE rstrip(_)
rstrip(s) ==
  IF s # <<>> /\ IsSpace(s[Len(s)]) THEN rstrip(SubSeq(s, 1, Len(s) - 1)) ELSE s

\* str.strip()
strip(s) == rstrip(lstrip(s))

\* The date and time removal of clean_text_column.
remove_dates(s) == str_replace("time", <<>>, str_replace("date", <<>>, s))

\* The URL removal.
remove_urls(s) == str_replace("url", <<>>, s)

\* The removal of the "Edited by " and "Attachments" metadata.
remove_metadata(s) == str_replace("attachments", <<>>, str_replace("edited", <<>>, s))

\* The removal of image and file references.
remove_files(s) ==
  str_replace("full", <<>>, str_replace("downloads", <<>>, str_replace("file", <<>>, s)))

\* The replacement of the known encoding artifact by an apostrophe.
fix_artifact(s) == str_replace("artifact", <<Ord("'")>>, s)

\* The clean-up of the spacing next to parentheses.
fix_paren_spacing(s) ==
  str_replace("paren_space", <<Ord("(")>>, str_replace("space_paren", <<Ord(")")>>, s))

\* The whitespace normalisation.
normalize_whitespace(s) == strip(str_replace("spaces", <<Ord(" ")>>, s))

\* clean_text_column on one element of the series.
clean_text(x) ==
  normalize_whitespace(fix_paren_spacing(fix_artifact(remove_files(
    remove_metadata(remove_urls(remove_dates(fix_encoding(astype_str(x)))))))))

\* clean_text_column: the chain applied to every element of the series.
clean_text_column(series) == [k \in 1..Len(series) |-> clean_text(series[k])]


(***************************************************************************)
(* filter_precision_posts                                                  *)
(***************************************************************************)

\* precision_keywords, in the order of the list.
precision_keywords ==
  << Str(<<"v", "a", "r", "i", "a", "b", "l", "e", " ", "r", "a", "t", "e">>),
     Str(<<"V", "R", "T">>),
     Str(<<"p", "r", "e", "s", "c", "r", "i", "p", "t", "i", "o", "n", " ", "m", "a", "p">>),
     Str(<<"y", "i", "e", "l", "d", " ", "m", "o", "n", "i", "t", "o", "r">>),
     Str(<<"y", "i", "e", "l", "d", " ", "m", "a", "p">>),
     Str(<<"s", "e", "c", "t", "i", "o", "n", " ", "c", "o", "n", "t", "r", "o", "l">>),
     Str(<<"r", "a", "t", "e", " ", "c", "o", "n", "t", "r", "o", "l", "l", "e", "r">>),
     Str(<<"R", "T", "K">>),
     Str(<<"a", "u", "t", "o", "s", "t", "e", "e", "r">>),
     Str(<<"p", "r", "e", "c", "i", "s", "i", "o", "n", " ", "p", "l", "a", "n", "t", "e", "r">>),
     Str(<<"g", "r", "i", "d", " ", "s", "a", "m", "p", "l", "i", "n", "g">>),
     Str(<<"v", "a", "r", "i", "a", "b", "l", "e", " ", "p", "o", "p", "u", "l", "a", "t", "i", "o", "n">>),
     Str(<<"o", "v", "e", "r", "l", "a", "p", " ", "c", "o", "n", "t", "r", "o", "l">>) >>

\* The case folding of re.IGNORECASE for the code points up to U+00FF.
Lower(c) == IF c \in (65..90) \cup (192..214) \cup (216..222) THEN c + 32 ELSE c

\* The literal lit occurs in s at position i, ignoring case.
StartsWithFold(s, i, lit) ==
  /\ i >= 1
  /\ i + Len(lit) - 1 <= Len(s)
  /\ \A k \in 1..Len(lit) : Lower(s[i + k - 1]) = Lower(lit[k])

\* A variant of MatchPattern: a pattern without its closing \b.
MatchPatternOpenEnded(s, i) ==
  /\ WordBoundary(s, i)
  /\ \E k \in 1..Len(precision_keywords) : StartsWithFold(s, i, precision_keywords[k])

\* pattern = r"\b(" + "|".join(map(re.escape, precision_keywords)) + r")\b"
\* matches at position i of s: some alternative matches there between two
\* word boundaries.
MatchPattern(s, i) ==
  /\ WordBoundary(s, i)
  /\ \E k \in 1..Len(precision_keywords) :
       /\ StartsWithFold(s, i, precision_keywords[k])
       /\ WordBoundary(s, i + Len(precision_keywords[k]))

RECURSIVE SearchPattern(_, _)
\* re.search(pattern, s) from position i on: the scan for the leftmost match.
SearchPattern(s, i) ==
  IF i > Len(s) THEN FALSE
  ELSE IF MatchPattern(s, i) THEN TRUE
  ELSE SearchPattern(s, i + 1)

\* Series.str.contains(pattern, case=False, na=False, regex=True) on one
\* element: a missing value gives False.
str_contains(x) == IF x = Null THEN FALSE ELSE SearchPattern(x, 1)

\* df[mask].copy().reset_index(drop=True): the rows of the mask, in order.
filter_precision_posts(df) == SelectSeq(df, LAMBDA r : str_contains(r.clean_text))


(***************************************************************************)
(* State                                                                   *)
(***************************************************************************)

VARIABLES
  fs,            \* the files of the data directory: path -> File(rows) or NoFile
  clean_pc,      \* clean_agtalk_posts.py: the position in its main block
  clean_df,      \* clean_agtalk_posts.py: df
  roberta_pc,    \* roberta_sentiment.py: the position in its main block
  roberta_df,    \* roberta_sentiment.py: df
  model_loaded,  \* load_model has returned
  model_calls,   \* the number of forward passes model(**inputs) made so far
  texts,         \* predict_sentiment: texts
  batch_size,    \* predict_sentiment: batch_size
  i,             \* predict_sentiment: the loop variable
  results,       \* predict_sentiment: results
  batches,       \* history: the <<start, length>> of each batch processed
  sentiment_df,  \* predict_sentiment's return value
  series,        \* a series of raw texts handed to clean_text_column
  cleaned_once,  \* clean_text_column(series)
  cleaned_twice, \* clean_text_column(clean_text_column(series))
  site,          \* the forum: the pages its server returns, fixed during a crawl
  next_bookmark, \* start_requests: the bookmark of the next request to issue
  scheduled,     \* the bag of requests issued and not yet answered
  handled,       \* history: the bag of requests whose callback has run
  failed,        \* history: the bag of requests whose fetch failed
  items          \* the post records emitted so far, in emission order

fs_vars == <<fs>>
clean_vars == <<clean_pc, clean_df>>
predict_vars == <<texts, batch_size, i, results, batches, sentiment_df>>
roberta_vars == <<roberta_pc, roberta_df, model_loaded, model_calls>>
idem_vars == <<series, cleaned_once, cleaned_twice>>
spider_vars == <<site, next_bookmark, scheduled, handled, failed, items>>

vars == <<fs_vars, clean_vars, roberta_vars, predict_vars, idem_vars, spider_vars>>

(***************************************************************************)
(* Files and dataframes                                                    *)
(***************************************************************************)

\* File paths of clean_agtalk_posts.py.
CLEAN_INPUT_PATH == "data/raw/precision_talk_2021_2026.csv"
CLEAN_OUTPUT_PATH == "data/processed/precision_talk_five_year_cleaned.csv"

\* File paths and configuration of roberta_sentiment.py.
ROBERTA_INPUT_PATH == "data/processed/machinery_talk_cleaned.csv"
ROBERTA_OUTPUT_PATH == "data/processed/machinery_talk_sentiment.csv"
BATCH_SIZE == 16

Paths == {CLEAN_INPUT_PATH, CLEAN_OUTPUT_PATH, ROBERTA_INPUT_PATH, ROBERTA_OUTPUT_PATH}

\* A path at which no file exists, and a file of the given rows.
NoFile == [exists |-> FALSE, rows |-> <<>>]
File(rows) == [exists |-> TRUE, rows |-> rows]

\* The columns whose cells are text; the cells of the other columns are
\* carried through the CSV files as they are.
TextColumns == {"post_text", "clean_text"}

\* The cell texts pandas.read_csv reads as a missing value (its default
\* na_values), the empty cell among them.
NaValues ==
  { <<>>,
    Str(<<"#", "N", "/", "A">>),
    Str(<<"#", "N", "/", "A", " ", "N", "/", "A">>),
    Str(<<"#", "N", "A">>),
    Str(<<"-", "1", ".", "#", "I", "N", "D">>),
    Str(<<"-", "1", ".", "#", "Q", "N", "A", "N">>),
    Str(<<"-", "N", "a", "N">>),
    Str(<<"-", "n", "a", "n">>),
    Str(<<"1", ".", "#", "I", "N", "D">>),
    Str(<<"1", ".", "#", "Q", "N", "A", "N">>),
    Str(<<"<", "N", "A", ">">>),
    Str(<<"N", "/", "A">>),
    Str(<<"N", "A">>),
    Str(<<"N", "U", "L", "L">>),
    Str(<<"N", "a", "N">>),
    Str(<<"N", "o", "n", "e">>),
    Str(<<"n", "/", "a">>),
    Str(<<"n", "a", "n">>),
    Str(<<"n", "u", "l", "l">>) }

\* pandas.read_csv: the rows of the file, missing values recognised.
read_csv(file) ==
  [k \in 1..Len(file) |->
     [c \in DOMAIN file[k] |->
        IF c \in TextColumns /\ file[k][c] \in NaValues THEN Null ELSE file[k][c]]]

\* DataFrame.to_csv(index=False): a missing value is written as an empty cell.
to_csv(df) ==
  [k \in 1..Len(df) |->
     [c \in DOMAIN df[k] |->
        IF c \in TextColumns /\ df[k][c] = Null THEN <<>> ELSE df[k][c]]]

\* df[name] = column: the rows of df with cell column[k] added to row k.
WithColumn(df, name, column) ==
  [k \in 1..Len(df) |->
     [c \in DOMAIN df[k] \cup {name} |-> IF c = name THEN column[k] ELSE df[k][c]]]

\* df[name]: one column of df as a series.
Column(df, name) == [k \in 1..Len(df) |-> df[k][name]]

(***************************************************************************)
(* clean_agtalk_posts.py, main block                                       *)
(***************************************************************************)

\* The minimum length of a cleaned text that is kept.
MIN_LENGTH == 20

\* A variant of LongEnough: the comparison strict.
LongerThanMinimum(r) == Len(r.clean_text) > MIN_LENGTH

\* df["clean_text"].str.len() >= 20 on one row.
LongEnough(r) == Len(r.clean_text) >= MIN_LENGTH

\* df = pd.read_csv(INPUT_PATH); a missing file raises FileNotFoundError.
CleanRead ==
  /\ clean_pc = "start"
  /\ IF fs[CLEAN_INPUT_PATH] = NoFile
       THEN clean_pc' = "crashed" /\ UNCHANGED clean_df
       ELSE clean_pc' = "read" /\ clean_df' = read_csv(fs[CLEAN_INPUT_PATH].rows)
  /\ UNCHANGED <<fs_vars, roberta_vars, predict_vars, idem_vars, spider_vars>>

\* df["clean_text"] = clean_text_column(df["post_text"])
CleanColumn ==
  /\ clean_pc = "read"
  /\ clean_df' = WithColumn(clean_df, "clean_text",
                            clean_text_column(Column(clean_df, "post_text")))
  /\ clean_pc' = "cleaned"
  /\ UNCHANGED <<fs_vars, roberta_vars, predict_vars, idem_vars, spider_vars>>

\* df = df[df["clean_text"].str.len() >= 20]
CleanFilter ==
  /\ clean_pc = "cleaned"
  /\ clean_df' = SelectSeq(clean_df, LongEnough)
  /\ clean_pc' = "filtered"
  /\ UNCHANGED <<fs_vars, roberta_vars, predict_vars, idem_vars, spider_vars>>

\* df.to_csv(OUTPUT_PATH, index=False, encoding="utf-8")
CleanWrite ==
  /\ clean_pc = "filtered"
  /\ fs' = [fs EXCEPT ![CLEAN_OUTPUT_PATH] = File(to_csv(clean_df))]
  /\ clean_pc' = "done"
  /\ UNCHANGED <<clean_df, roberta_vars, predict_vars, idem_vars, spider_vars>>

CleanNext == CleanRead \/ CleanColumn \/ CleanFilter \/ CleanWrite


(***************************************************************************)
(* roberta_sentiment.py: predict_sentiment                                 *)
(***************************************************************************)

Min(a, b) == IF a <= b THEN a ELSE b

\* batch = texts[i:i + batch_size], for the 0-based loop variable i.
Batch(t, start, size) == SubSeq(t, start + 1, Min(start + size, Len(t)))

\* softmax(model(**tokenizer(batch)).logits, dim=1): one row of probabilities
\* for each text of the batch, in the order of the batch.  The row of a text
\* is written [probs_of |-> text]: what the pretrained model computes for it.
Probabilities(batch) == [k \in 1..Len(batch) |-> [probs_of |-> batch[k]]]

\* results.extend(probs.cpu().numpy())
Extend(rs, probs) == rs \o probs

\* A variant of NextStart: a step one larger than the batch.
NextStartSkipping(start, size) == start + size + 1

\* range(0, len(texts), batch_size): the loop variable after start.
NextStart(start, size) == start + size

\* One iteration of the loop over the batches.
PredictBatch ==
  /\ roberta_pc = "predict"
  /\ i < Len(texts)
  /\ LET batch == Batch(texts, i, batch_size)
     IN  /\ model_calls' = model_calls + 1
         /\ results' = Extend(results, Probabilities(batch))
         /\ batches' = Append(batches, <<i, Len(batch)>>)
  /\ i' = NextStart(i, batch_size)
  /\ UNCHANGED <<texts, batch_size, sentiment_df>>
  /\ UNCHANGED <<fs_vars, clean_vars, roberta_pc, roberta_df, model_loaded, idem_vars, spider_vars>>

\* After the loop: sentiment_df = pd.DataFrame(results) and its three column
\* names; naming the columns of a frame with no rows raises ValueError.
PredictReturn ==
  /\ roberta_pc = "predict"
  /\ i >= Len(texts)
  /\ IF results = <<>>
       THEN roberta_pc' = "crashed" /\ UNCHANGED sentiment_df
       ELSE roberta_pc' = "predicted" /\ sentiment_df' = results
  /\ UNCHANGED <<texts, batch_size, i, results, batches>>
  /\ UNCHANGED <<fs_vars, clean_vars, roberta_df, model_loaded, model_calls, idem_vars, spider_vars>>

(***************************************************************************)
(* roberta_sentiment.py, main block                                        *)
(***************************************************************************)

\* Series.str on a column read from a file: a column with rows whose cells
\* are all missing is read as float64, and .str raises AttributeError on it.
HasStrAccessor(df) == df = <<>> \/ \E k \in 1..Len(df) : df[k].clean_text # Null

\* A variant of AfterEmptyCheck: no check for an empty frame.
AfterNoCheck(df) == "predict"

\* The position after "if df.empty: ... exit()".
AfterEmptyCheck(df) == IF df = <<>> THEN "exited" ELSE "predict"

\* pd.concat([df.reset_index(drop=True), sentiment_df], axis=1), then the
\* label and the score derived from the sentiment columns of the same row:
\* row k of df beside row k of sentiment_df, a missing side as NullRow.
NullRow == [missing |-> TRUE]

Concat(df, sdf) ==
  [k \in 1..(IF Len(df) >= Len(sdf) THEN Len(df) ELSE Len(sdf)) |->
     [post |-> IF k <= Len(df) THEN df[k] ELSE NullRow,
      sentiment |-> IF k <= Len(sdf) THEN sdf[k] ELSE NullRow]]

\* to_csv of the merged frame: the post columns as to_csv writes them.
to_csv_scored(df) ==
  [k \in 1..Len(df) |->
     [post |-> IF df[k].post = NullRow THEN NullRow ELSE to_csv(<<df[k].post>>)[1],
      sentiment |-> df[k].sentiment]]

\* tokenizer, model, device = load_model(MODEL_NAME)
RobertaLoadModel ==
  /\ roberta_pc = "start"
  /\ model_loaded' = TRUE
  /\ roberta_pc' = "loaded"
  /\ UNCHANGED <<roberta_df, model_calls>>
  /\ UNCHANGED <<fs_vars, clean_vars, predict_vars, idem_vars, spider_vars>>

\* df = pd.read_csv(INPUT_PATH); a missing file raises FileNotFoundError.
RobertaRead ==
  /\ roberta_pc = "loaded"
  /\ IF fs[ROBERTA_INPUT_PATH] = NoFile
       THEN roberta_pc' = "crashed" /\ UNCHANGED roberta_df
       ELSE roberta_pc' = "read" /\ roberta_df' = read_csv(fs[ROBERTA_INPUT_PATH].rows)
  /\ UNCHANGED <<model_loaded, model_calls>>
  /\ UNCHANGED <<fs_vars, clean_vars, predict_vars, idem_vars, spider_vars>>

\* df = filter_precision_posts(df)
RobertaFilter ==
  /\ roberta_pc = "read"
  /\ IF HasStrAccessor(roberta_df)
       THEN roberta_pc' = "filtered" /\ roberta_df' = filter_precision_posts(roberta_df)
       ELSE roberta_pc' = "crashed" /\ UNCHANGED roberta_df
  /\ UNCHANGED <<model_loaded, model_calls>>
  /\ UNCHANGED <<fs_vars, clean_vars, predict_vars, idem_vars, spider_vars>>

\* if df.empty: exit(); otherwise the call of predict_sentiment with
\* texts=df["clean_text"].astype(str).tolist() and batch_size=BATCH_SIZE.
RobertaCheck ==
  /\ roberta_pc = "filtered"
  /\ roberta_pc' = AfterEmptyCheck(roberta_df)
  /\ IF AfterEmptyCheck(roberta_df) = "predict"
       THEN /\ texts' = [k \in 1..Len(roberta_df) |-> astype_str(roberta_df[k].clean_text)]
            /\ batch_size' = BATCH_SIZE
            /\ i' = 0
            /\ results' = <<>>
            /\ batches' = <<>>
            /\ UNCHANGED sentiment_df
       ELSE UNCHANGED predict_vars
  /\ UNCHANGED <<roberta_df, model_loaded, model_calls>>
  /\ UNCHANGED <<fs_vars, clean_vars, idem_vars, spider_vars>>

\* df = pd.concat(...), df["sentiment_label"], df["sentiment_score"]
RobertaMerge ==
  /\ roberta_pc = "predicted"
  /\ roberta_df' = Concat(roberta_df, sentiment_df)
  /\ roberta_pc' = "merged"
  /\ UNCHANGED <<model_loaded, model_calls>>
  /\ UNCHANGED <<fs_vars, clean_vars, predict_vars, idem_vars, spider_vars>>

\* df.to_csv(OUTPUT_PATH, index=False)
RobertaSave ==
  /\ roberta_pc = "merged"
  /\ fs' = [fs EXCEPT ![ROBERTA_OUTPUT_PATH] = File(to_csv_scored(roberta_df))]
  /\ roberta_pc' = "done"
  /\ UNCHANGED <<roberta_df, model_loaded, model_calls>>
  /\ UNCHANGED <<clean_vars, predict_vars, idem_vars, spider_vars>>

RobertaNext ==
  \/ RobertaLoadModel
  \/ RobertaRead
  \/ RobertaFilter
  \/ RobertaCheck
  \/ PredictBatch
  \/ PredictReturn
  \/ RobertaMerge
  \/ RobertaSave


(***************************************************************************)
(* Applying clean_text_column once and twice                               *)
(***************************************************************************)

\* once = clean_text_column(series)
ApplyOnce ==
  /\ cleaned_once = <<>>
  /\ cleaned_once' = clean_text_column(series)
  /\ UNCHANGED <<series, cleaned_twice>>
  /\ UNCHANGED <<fs_vars, clean_vars, roberta_vars, predict_vars, spider_vars>>

\* twice = clean_text_column(once)
ApplyTwice ==
  /\ cleaned_once # <<>>
  /\ cleaned_twice = <<>>
  /\ cleaned_twice' = clean_text_column(cleaned_once)
  /\ UNCHANGED <<series, cleaned_once>>
  /\ UNCHANGED <<fs_vars, clean_vars, roberta_vars, predict_vars, spider_vars>>

IdemNext == ApplyOnce \/ ApplyTwice


(***************************************************************************)
(* five_year_spider.py: pages and selectors                                *)
(*                                                                         *)
(* A listing page is the sequence of the href attributes of its anchors.   *)
(* A thread page is [title, rows]: title the text of its title element     *)
(* (Null without one), rows its table rows in document order, each row the *)
(* sequence of its td elements.  An element is [tag, class, href, kids]    *)
(* and a text node is [tag |-> "#text", text |-> ...].                     *)
(***************************************************************************)

\* The text lit occurs somewhere in s: the *= attribute operator of CSS.
Contains(s, lit) == \E k \in 1..(Len(s) + 1) : StartsWith(s, k, lit)

THREAD_LINK == Str(<<"t", "h", "r", "e", "a", "d", "-", "v", "i", "e", "w", ".",
                     "a", "s", "p", "?", "t", "i", "d", "=">>)
VIEW_PROFILE == Str(<<"v", "i", "e", "w", "-", "p", "r", "o", "f", "i", "l", "e">>)

RECURSIVE Flatten(_)
\* The concatenation of a sequence of sequences.
Flatten(ss) == IF ss = <<>> THEN <<>> ELSE Head(ss) \o Flatten(Tail(ss))

IsText(n) == n.tag = "#text"

RECURSIVE TextNodes(_)
\* //text() below (and including) node n, in document order.
TextNodes(n) ==
  IF IsText(n) THEN <<n.text>>
  ELSE Flatten([k \in 1..Len(n.kids) |-> TextNodes(n.kids[k])])

RECURSIVE SmalltextNodes(_)
\* //span[@class='smalltext']//text() below node n, in document order.
SmalltextNodes(n) ==
  IF IsText(n) THEN <<>>
  ELSE IF n.tag = "span" /\ n.class = "smalltext"
    THEN Flatten([k \in 1..Len(n.kids) |-> TextNodes(n.kids[k])])
  ELSE Flatten([k \in 1..Len(n.kids) |-> SmalltextNodes(n.kids[k])])

IsHeaderCell(td) == td.class = "messageheader"

\* A row selected by //td[@class='messageheader']/parent::tr.
IsPostRow(tr) == \E k \in 1..Len(tr) : IsHeaderCell(tr[k])

\* The header cells of a post row.
HeaderCells(tr) == SelectSeq(tr, IsHeaderCell)

\* The direct text nodes of element n: the ::text pseudo-element.
DirectTexts(n) ==
  LET ts == SelectSeq(n.kids, IsText)
  IN  [k \in 1..Len(ts) |-> ts[k].text]

\* An element matched by a[href*="view-profile"].
IsProfileAnchor(n) == ~IsText(n) /\ n.tag = "a" /\ Contains(n.href, VIEW_PROFILE)

RECURSIVE ProfileTextsBelow(_)

\* A variant of ProfileTexts: the descendant combinator in place of the child
\* combinator, td.messageheader a[href*="view-profile"]::text.
ProfileTextsBelow(n) ==
  IF IsText(n) THEN <<>>
  ELSE Flatten([k \in 1..Len(n.kids) |->
                  IF IsProfileAnchor(n.kids[k])
                    THEN DirectTexts(n.kids[k]) \o ProfileTextsBelow(n.kids[k])
                    ELSE ProfileTextsBelow(n.kids[k])])

\* td.messageheader > a[href*="view-profile"]::text on one header cell: the
\* child combinator selects the anchors that are children of the cell.
ProfileTexts(td) ==
  LET anchors == SelectSeq(td.kids, IsProfileAnchor)
  IN  Flatten([k \in 1..Len(anchors) |-> DirectTexts(anchors[k])])

\* " ".join(t.strip() for t in parts if t.strip())
RECURSIVE JoinStripped(_)
JoinStripped(parts) ==
  IF parts = <<>> THEN <<>>
  ELSE LET head == strip(Head(parts))
           rest == JoinStripped(Tail(parts))
       IN  IF head = <<>> THEN rest
           ELSE IF rest = <<>> THEN head
           ELSE head \o <<Ord(" ")>> \o rest

\* r"\d{1,2}/\d{1,2}/\d{4}\s+\d{1,2}:\d{2}" at position k: the length of
\* the match, 0 when there is none.
MatchPostDate(s, k) ==
  LET d1 == DigitRun(s, k, 2)
      p2 == k + d1 + 1
      d2 == DigitRun(s, p2, 2)
      p3 == p2 + d2 + 1
      sp == SpaceRun(s, p3 + 4)
      p4 == p3 + 4 + sp
      d4 == DigitRun(s, p4, 2)
  IN  IF /\ d1 >= 1 /\ At(s, k + d1) = Ord("/")
         /\ d2 >= 1 /\ At(s, p2 + d2) = Ord("/")
         /\ DigitRun(s, p3, 4) = 4
         /\ sp >= 1
         /\ d4 >= 1 /\ At(s, p4 + d4) = Ord(":")
         /\ DigitRun(s, p4 + d4 + 1, 2) = 2
        THEN p4 + d4 + 3 - k
        ELSE 0

\* date_match.group(0) if date_match else None
post_date_of(header_text) ==
  LET hits == {k \in 1..Len(header_text) : MatchPostDate(header_text, k) > 0}
  IN  IF hits = {} THEN Null
      ELSE LET k == CHOOSE h \in hits : \A g \in hits : h <= g
           IN  SubSeq(header_text, k, k + MatchPostDate(header_text, k) - 1)

\* id_match.group(1) if id_match else None, for r"#(\d+)"
post_id_of(header_text) ==
  LET hits == {k \in 1..Len(header_text) :
                 header_text[k] = Ord("#") /\ IsDigit(At(header_text, k + 1))}
  IN  IF hits = {} THEN Null
      ELSE LET k == CHOOSE h \in hits : \A g \in hits : h <= g
           IN  SubSeq(header_text, k + 1, k + DigitRun(header_text, k + 1, Len(header_text)))

\* The first position of character c in s from position k on, Len(s) + 1 for none.
RECURSIVE Find(_, _, _)
Find(s, c, k) == IF k > Len(s) \/ s[k] = c THEN k ELSE Find(s, c, k + 1)

RECURSIVE Split(_, _)
\* str.split(c)
Split(s, c) ==
  LET k == Find(s, c, 1)
  IN  IF k > Len(s) THEN <<s>>
      ELSE <<SubSeq(s, 1, k - 1)>> \o Split(SubSeq(s, k + 1, Len(s)), c)

\* urllib.parse.urlparse(url).query: what follows the first "?" of the URL
\* without its fragment.
QueryOf(url) ==
  LET nofrag == SubSeq(url, 1, Find(url, Ord("#"), 1) - 1)
  IN  SubSeq(nofrag, Find(nofrag, Ord("?"), 1) + 1, Len(nofrag))

TID == Str(<<"t", "i", "d", "=">>)

\* urllib.parse.parse_qs(query).get("tid", [None])[0]: the value of the
\* first tid parameter that has a value, for a query without escapes.
tid_of(query) ==
  LET params == Split(query, Ord("&"))
      IsTid(q) == StartsWith(q, 1, TID) /\ Len(q) > Len(TID)
      tids == SelectSeq(params, IsTid)
  IN  IF tids = <<>> THEN Null ELSE SubSeq(tids[1], Len(TID) + 1, Len(tids[1]))

\* The username of one post row.
username_of(post) ==
  LET textnodes == Flatten([k \in 1..Len(HeaderCells(post)) |->
                              ProfileTexts(HeaderCells(post)[k])])
  IN  IF textnodes = <<>> THEN Null
      ELSE IF textnodes[1] = <<>> THEN textnodes[1]
      ELSE strip(textnodes[1])

\* The header text of one post row.
header_text_of(post) ==
  JoinStripped(Flatten([k \in 1..Len(HeaderCells(post)) |->
                          SmalltextNodes(HeaderCells(post)[k])]))

\* post_text, from body_row = post.xpath("following-sibling::tr[1]"): the
\* row after row k of the page, if there is one.
post_text_of(rows, k) ==
  IF k = Len(rows) THEN <<>>
  ELSE JoinStripped(Flatten([c \in 1..Len(rows[k + 1]) |-> TextNodes(rows[k + 1][c])]))

(***************************************************************************)
(* five_year_spider.py: AgtalkForumSpider                                  *)
(***************************************************************************)

\* range(0, 110000, 50)
RANGE_START == 0
RANGE_STOP == 110000
RANGE_STEP == 50

\* f"https://talk.newagtalk.com/forums/forum-view.asp?fid=2&bookmark={bookmark}"
ListingUrl(bookmark) == [page |-> "forum-view.asp", fid |-> 2, bookmark |-> bookmark]

\* The URL response.follow(link) requests: link joined to the URL of the forum.
FollowUrl(link) == [base |-> "https://talk.newagtalk.com/forums/", href |-> link]

\* A variant of StartRequest: the request tagged with the number of the page
\* instead of its offset.
StartRequestPageNumber(bookmark) ==
  [url |-> ListingUrl(bookmark), callback |-> "parse",
   meta |-> [bookmark |-> bookmark \div RANGE_STEP]]

\* scrapy.Request(url=url, callback=self.parse, meta={"bookmark": bookmark})
StartRequest(bookmark) ==
  [url |-> ListingUrl(bookmark), callback |-> "parse", meta |-> [bookmark |-> bookmark]]

\* The bookmark start_requests uses after bookmark b, and whether it has one.
InRange(b) == b < RANGE_STOP
NextBookmark(b) == b + RANGE_STEP

\* response.meta.get("bookmark")
MetaBookmark(response) == response.meta.bookmark

\* response.css("a[href*='thread-view.asp?tid=']::attr(href)").getall()
thread_links(response) == SelectSeq(response.body, LAMBDA href : Contains(href, THREAD_LINK))

\* A variant of parse: the requests tagged with the bookmark start_requests
\* has reached instead of the one of the response.
parse_latest_bookmark(response) ==
  [k \in 1..Len(thread_links(response)) |->
     [url |-> FollowUrl(thread_links(response)[k]),
      callback |-> "parse_thread",
      meta |-> [bookmark |-> next_bookmark]]]

\* parse: the requests it yields, one for each thread link, in order.
parse(response) ==
  [k \in 1..Len(thread_links(response)) |->
     [url |-> FollowUrl(thread_links(response)[k]),
      callback |-> "parse_thread",
      meta |-> [bookmark |-> MetaBookmark(response)]]]

\* A variant of parse_thread: the count of the records emitted so far, a
\* state shared between the responses, numbers the posts.
parse_thread_counting(response) ==
  LET rows == response.body.rows
      posts == SelectSeq([k \in 1..Len(rows) |-> k], LAMBDA k : IsPostRow(rows[k]))
  IN  [n \in 1..Len(posts) |->
         [thread_id |-> tid_of(QueryOf(response.url.href)),
          thread_title |-> response.body.title,
          thread_url |-> response.url,
          bookmark |-> MetaBookmark(response),
          post_id |-> Str(<<"0">>) \o [k \in 1..Len(items) |-> Ord("1")],
          username |-> username_of(rows[posts[n]]),
          post_date |-> post_date_of(header_text_of(rows[posts[n]])),
          post_text |-> post_text_of(rows, posts[n])]]

\* parse_thread: the records it yields, one for each post row, in order.
parse_thread(response) ==
  LET rows == response.body.rows
      posts == SelectSeq([k \in 1..Len(rows) |-> k], LAMBDA k : IsPostRow(rows[k]))
  IN  [n \in 1..Len(posts) |->
         [thread_id |-> tid_of(QueryOf(response.url.href)),
          thread_title |-> response.body.title,
          thread_url |-> response.url,
          bookmark |-> MetaBookmark(response),
          post_id |-> post_id_of(header_text_of(rows[posts[n]])),
          username |-> username_of(rows[posts[n]]),
          post_date |-> post_date_of(header_text_of(rows[posts[n]])),
          post_text |-> post_text_of(rows, posts[n])]]

RECURSIVE SeqToBag(_)
SeqToBag(q) == IF q = <<>> THEN EmptyBag ELSE SetToBag({Head(q)}) (+) SeqToBag(Tail(q))

\* The response the forum gives to a request.
Response(req) ==
  [url |-> req.url,
   meta |-> req.meta,
   body |-> IF req.callback = "parse"
              THEN (IF req.url.bookmark \in DOMAIN site.listings
                      THEN site.listings[req.url.bookmark] ELSE <<>>)
              ELSE site.threads[req.url.href]]

\* The engine takes the next request of start_requests, up to bookmark limit.
IssueStartRequest(limit) ==
  /\ InRange(next_bookmark)
  /\ next_bookmark < limit
  /\ scheduled' = scheduled (+) SetToBag({StartRequest(next_bookmark)})
  /\ next_bookmark' = NextBookmark(next_bookmark)
  /\ UNCHANGED <<site, handled, failed, items>>
  /\ UNCHANGED <<fs_vars, clean_vars, roberta_vars, predict_vars, idem_vars>>

\* A listing page arrives and parse runs on it.
HandleListing ==
  \E req \in BagToSet(scheduled) :
    /\ req.callback = "parse"
    /\ scheduled' = (scheduled (-) SetToBag({req})) (+) SeqToBag(parse(Response(req)))
    /\ handled' = handled (+) SetToBag({req})
    /\ UNCHANGED <<site, next_bookmark, failed, items>>
    /\ UNCHANGED <<fs_vars, clean_vars, roberta_vars, predict_vars, idem_vars>>

\* A thread page arrives and parse_thread runs on it.
HandleThread ==
  \E req \in BagToSet(scheduled) :
    /\ req.callback = "parse_thread"
    /\ req.url.href \in DOMAIN site.threads
    /\ scheduled' = scheduled (-) SetToBag({req})
    /\ handled' = handled (+) SetToBag({req})
    /\ items' = items \o parse_thread(Response(req))
    /\ UNCHANGED <<site, next_bookmark, failed>>
    /\ UNCHANGED <<fs_vars, clean_vars, roberta_vars, predict_vars, idem_vars>>

\* A fetch fails, or the engine drops the request: no callback runs.
FetchFails ==
  \E req \in BagToSet(scheduled) :
    /\ scheduled' = scheduled (-) SetToBag({req})
    /\ failed' = failed (+) SetToBag({req})
    /\ UNCHANGED <<site, next_bookmark, handled, items>>
    /\ UNCHANGED <<fs_vars, clean_vars, roberta_vars, predict_vars, idem_vars>>


(***************************************************************************)
(* Inputs                                                                  *)
(***************************************************************************)

\* Bounds of the model.
MaxRawRows == 2    \* rows of a raw CSV file
MaxCleanRows == 3  \* rows of a cleaned CSV file
MaxTexts == 3      \* texts handed to predict_sentiment
MaxBatch == 3      \* batch sizes tried for predict_sentiment
MaxLen == 3        \* length of the generated raw texts
MaxListings == 3   \* listing pages the engine requests in a crawl
MaxPageRows == 2   \* table rows of a generated thread page

\* The sequences over S of length lo to hi.
SeqsOf(S, lo, hi) == UNION {[1..n -> S] : n \in lo..hi}

\* A record of the collector with the given post_id and post_text.
Post(id, text) ==
  [thread_id |-> "4711", thread_title |-> "Precision Talk",
   thread_url |-> "thread-view.asp?tid=4711", bookmark |-> 50,
   post_id |-> id, username |-> "John Doe", post_date |-> "3/4/2022 10:15",
   post_text |-> text]

\* the post of the end-to-end scenario
RAW_SCENARIO ==
  Str(<<"C", "h", "e", "c", "k", " ", "o", "u", "t", " ", "t", "h", "i", "s",
    " ", "R", "T", "K", " ", "s", "e", "t", "u", "p", " ", " ", "f", "o", "r",
    " ", "s", "u", "r", "e">>)

\* 36 characters, 20 when cleaned
RAW_DATED ==
  Str(<<"3", "/", "4", "/", "2", "0", "2", "2", " ", "1", "0", ":", "1", "5",
    " ", "R", "T", "K", " ", "w", "o", "r", "k", "s", " ", "f", "i", "n", "e",
    " ", "t", "o", "d", "a", "y", " ">>)

\* 37 characters, 19 when cleaned
RAW_LINKED ==
  Str(<<"R", "T", "K", " ", "w", "o", "r", "k", "s", " ", "f", "i", "n", "e",
    " ", "t", "o", "d", "a", " ", "h", "t", "t", "p", ":", "/", "/", "x", ".",
    "c", "o", "/", "a", ".", "j", "p", "g">>)

\* an empty cell
RAW_EMPTY ==
  <<>>

\* a mis-decoded e-acute
RAW_MOJIBAKE ==
  Str(<<"C", "a",
    "f">>) \o <<Chr.A_TILDE>> \o <<Chr.COPYRIGHT>> \o Str(<<" ", "R", "T", "K",
    "i", "s", "h", " ", "i", "s", " ", "o", "p", "e", "n", " ", "n", "o",
    "w">>)

\* 21 characters, clean already
RAW_PLAIN ==
  Str(<<"o", "u", "r", " ", "y", "i", "e", "l", "d", " ", "m", "a", "p", " ",
    "i", "s", " ", "g", "o", "o", "d">>)

\* The rows a raw CSV file is made of.
RawRows ==
  { Post("1", RAW_SCENARIO),
    Post("2", RAW_DATED),
    Post("3", RAW_LINKED),
    Post("4", RAW_EMPTY),
    Post("5", RAW_MOJIBAKE),
    Post("6", RAW_PLAIN) }

\* RTK as a whole word
CLEAN_RTK ==
  Str(<<"R", "T", "K", " ", "w", "o", "r", "k", "s", " ", "f", "i", "n", "e",
    " ", "t", "o", "d", "a", "y">>)

\* RTK inside the token RTKish
CLEAN_RTKISH ==
  Str(<<"R", "T", "K", "i", "s", "h", " ", "w", "o", "r", "k", "s", " ", "f",
    "i", "n", "e", " ", "t", "o", "d", "a", "y">>)

\* an empty cell, read as a missing value
CLEAN_EMPTY ==
  <<>>

\* a phrase in another case
CLEAN_PHRASE ==
  Str(<<"W", "e", " ", "u", "s", "e", " ", "V", "a", "r", "i", "a", "b", "l",
    "e", " ", "R", "a", "t", "e", " ", "s", "e", "e", "d", "i", "n", "g">>)

\* a phrase that runs on into a word
CLEAN_MAPPING ==
  Str(<<"n", "i", "c", "e", " ", "y", "i", "e", "l", "d", " ", "m", "a", "p",
    "p", "i", "n", "g", " ", "t", "o", "o", "l", " ", "h", "e", "r", "e">>)

\* A row of a cleaned CSV file: a record of the collector and its clean_text.
Cleaned(id, text) ==
  [c \in DOMAIN Post(id, text) \cup {"clean_text"} |->
     IF c = "clean_text" THEN text ELSE Post(id, text)[c]]

\* The rows a cleaned CSV file is made of.
CleanedRows ==
  { Cleaned("1", CLEAN_RTK),
    Cleaned("2", CLEAN_RTKISH),
    Cleaned("3", CLEAN_EMPTY),
    Cleaned("4", CLEAN_PHRASE),
    Cleaned("5", CLEAN_MAPPING) }

\* The characters the generated raw texts are made of.
RawAlphabet ==
  {Ord("a"), Ord(" "), Ord("("), Ord(")"), Chr.A_TILDE, Chr.COPYRIGHT, Chr.E_ACUTE}

\* The raw texts clean_text_column is applied to once and twice.
RawTexts ==
  SeqsOf(RawAlphabet, 0, MaxLen)
    \cup {r.post_text : r \in RawRows}
    \cup {CLEAN_RTK, CLEAN_PHRASE}


(***************************************************************************)
(* Specifications                                                          *)
(***************************************************************************)

\* A data directory with no file in it.
NoFiles == [p \in Paths |-> NoFile]

\* The scripts and the spider before they run, and nothing being cleaned.
CleanOff == clean_pc = "off" /\ clean_df = <<>>
RobertaOff ==
  /\ roberta_pc = "off" /\ roberta_df = <<>>
  /\ model_loaded = FALSE /\ model_calls = 0
PredictOff ==
  /\ texts = <<>> /\ batch_size = BATCH_SIZE /\ i = 0
  /\ results = <<>> /\ batches = <<>> /\ sentiment_df = <<>>
IdemOff == series = <<>> /\ cleaned_once = <<>> /\ cleaned_twice = <<>>
SpiderOff ==
  /\ site = [listings |-> <<>>, threads |-> <<>>]
  /\ next_bookmark = RANGE_START
  /\ scheduled = EmptyBag /\ handled = EmptyBag /\ failed = EmptyBag
  /\ items = <<>>
FilesOff == fs = NoFiles

\* The files a raw CSV may be, and the files a cleaned CSV may be.
RawFiles == {File(rows) : rows \in SeqsOf(RawRows, 0, MaxRawRows)} \cup {NoFile}
CleanedFiles == {File(rows) : rows \in SeqsOf(CleanedRows, 0, MaxCleanRows)} \cup {NoFile}

\* clean_agtalk_posts.py run on a raw CSV file.
InitNormalizer ==
  /\ \E raw \in RawFiles : fs = [NoFiles EXCEPT ![CLEAN_INPUT_PATH] = raw]
  /\ clean_pc = "start" /\ clean_df = <<>>
  /\ RobertaOff /\ PredictOff /\ IdemOff /\ SpiderOff

SpecNormalizer == InitNormalizer /\ [][CleanNext]_vars

\* The output file of an earlier run of roberta_sentiment.py.
OLD_OUTPUT ==
  File(<<[post |-> Cleaned("9", CLEAN_PHRASE), sentiment |-> [probs_of |-> CLEAN_PHRASE]]>>)

\* roberta_sentiment.py run on the file at its INPUT_PATH, with or without
\* an output file of an earlier run.
InitClassifier ==
  /\ \E cleaned \in CleanedFiles, out \in {NoFile, OLD_OUTPUT} :
       fs = [NoFiles EXCEPT ![ROBERTA_INPUT_PATH] = cleaned, ![ROBERTA_OUTPUT_PATH] = out]
  /\ roberta_pc = "start" /\ roberta_df = <<>>
  /\ model_loaded = FALSE /\ model_calls = 0
  /\ CleanOff /\ PredictOff /\ IdemOff /\ SpiderOff

SpecClassifier == InitClassifier /\ [][RobertaNext]_vars

\* The rows that pass the keyword filter, which predict_sentiment is called on.
PrecisionRows == {r \in CleanedRows : str_contains(r.clean_text)}

\* predict_sentiment called on the texts of a filtered frame with any batch
\* size, and the merge of its result into the frame.
InitPredict ==
  /\ \E df \in SeqsOf(PrecisionRows, 1, MaxTexts), b \in 1..MaxBatch :
       /\ roberta_df = df
       /\ texts = [k \in 1..Len(df) |-> astype_str(df[k].clean_text)]
       /\ batch_size = b
  /\ i = 0 /\ results = <<>> /\ batches = <<>> /\ sentiment_df = <<>>
  /\ roberta_pc = "predict" /\ model_loaded = TRUE /\ model_calls = 0
  /\ FilesOff /\ CleanOff /\ IdemOff /\ SpiderOff

PredictNext == PredictBatch \/ PredictReturn \/ RobertaMerge

SpecPredict == InitPredict /\ [][PredictNext]_vars

\* The two scripts run one after the other: the normalizer on a raw CSV
\* file, then the classifier, in a data directory where a file of an earlier
\* run may lie at the classifier's INPUT_PATH.
InitPipeline ==
  /\ \E raw \in RawFiles \ {NoFile}, old \in CleanedFiles :
       /\ Len(raw.rows) <= 1
       /\ Len(old.rows) <= 1
       /\ fs = [NoFiles EXCEPT ![CLEAN_INPUT_PATH] = raw, ![ROBERTA_INPUT_PATH] = old]
  /\ clean_pc = "start" /\ clean_df = <<>>
  /\ roberta_pc = "start" /\ roberta_df = <<>>
  /\ model_loaded = FALSE /\ model_calls = 0
  /\ PredictOff /\ IdemOff /\ SpiderOff

PipelineNext ==
  \/ CleanNext
  \/ clean_pc = "done" /\ RobertaNext

SpecPipeline == InitPipeline /\ [][PipelineNext]_vars

\* clean_text_column applied to a one-element series, and again to its result.
InitIdem ==
  /\ \E x \in RawTexts : series = <<x>>
  /\ cleaned_once = <<>> /\ cleaned_twice = <<>>
  /\ FilesOff /\ CleanOff /\ RobertaOff /\ PredictOff /\ SpiderOff

SpecIdem == InitIdem /\ [][IdemNext]_vars


(***************************************************************************)
(* Pages of the forum                                                      *)
(***************************************************************************)

TextNode(t) == [tag |-> "#text", text |-> t]
Element(tag, class, href, kids) == [tag |-> tag, class |-> class, href |-> href, kids |-> kids]
Anchor(href, kids) == Element("a", "", href, kids)
Span(class, kids) == Element("span", class, <<>>, kids)
Td(class, kids) == Element("td", class, <<>>, kids)

PROFILE_HREF == Str(<<"v", "i", "e", "w", "-", "p", "r", "o", "f", "i", "l", "e", ".", "a", "s", "p", "?", "u", "i", "d", "=", "7">>)
REPLY_HREF == Str(<<"p", "o", "s", "t", "-", "r", "e", "p", "l", "y", ".", "a", "s", "p", "?", "t", "i", "d", "=", "1">>)

\* The header row of the end-to-end scenario: the profile anchor is a child
\* of the header cell.
HEADER_SCENARIO ==
  << Td("messageheader",
        << Anchor(PROFILE_HREF, <<TextNode(Str(<<" ", "J", "o", "h", "n", " ", "D", "o", "e", " ">>))>>),
           Span("smalltext", <<TextNode(Str(<<" ", "#", "1", "2", " ">>)),
                               TextNode(Str(<<"3", "/", "4", "/", "2", "0", "2", "2", " ", "1", "0", ":", "1", "5">>))>>) >>) >>

\* The profile anchor lies inside the span of the header cell.
HEADER_NESTED ==
  << Td("messageheader",
        << Span("smalltext", <<Anchor(PROFILE_HREF, <<TextNode(Str(<<"A", "n", "n">>))>>),
                               TextNode(Str(<<" ", "#", "3">>))>>) >>) >>

\* No profile anchor at all.
HEADER_NONE ==
  << Td("messageheader",
        << Anchor(REPLY_HREF, <<TextNode(Str(<<"R", "e", "p", "l", "y">>))>>),
           Span("smalltext", <<TextNode(Str(<<"n", "o", " ", "d", "a", "t", "e">>))>>) >>) >>

\* Two profile anchors, both children of the header cell.
HEADER_TWO ==
  << Td("messageheader",
        << Anchor(PROFILE_HREF, <<TextNode(Str(<<" ", "B", "o", "b">>))>>),
           Anchor(PROFILE_HREF, <<TextNode(Str(<<"E", "v", "e">>))>>) >>) >>

\* The first profile anchor has its text inside a b element.
HEADER_BOLD ==
  << Td("messageheader",
        << Anchor(PROFILE_HREF, <<Element("b", "", <<>>, <<TextNode(Str(<<"A", "l">>))>>)>>),
           Anchor(PROFILE_HREF, <<TextNode(Str(<<"C", "y">>))>>) >>) >>

\* A nested profile anchor before one that is a child of the header cell.
HEADER_MIXED ==
  << Td("messageheader",
        << Span("", <<Anchor(PROFILE_HREF, <<TextNode(Str(<<"D", "i">>))>>)>>),
           Anchor(PROFILE_HREF, <<TextNode(Str(<<"E", "d", " ">>))>>) >>) >>

\* A profile anchor whose text is blank.
HEADER_BLANK ==
  << Td("messageheader", <<Anchor(PROFILE_HREF, <<TextNode(Str(<<" ", " ">>))>>)>>) >>

\* The body row of the end-to-end scenario.
BODY_SCENARIO ==
  << Td("messagebody",
        << TextNode(Str(<<" ", "C", "h", "e", "c", "k", " ", "o", "u", "t", " ", "t", "h", "i", "s", " ", "R", "T", "K", " ", "s", "e", "t", "u", "p", " ">>)),
           Element("br", "", <<>>, <<>>),
           TextNode(Str(<<" ", "f", "o", "r", " ", "s", "u", "r", "e", " ">>)) >>) >>

\* The table rows a generated thread page is made of.
PageRows ==
  { HEADER_SCENARIO, HEADER_NESTED, HEADER_NONE, HEADER_TWO, HEADER_BOLD,
    HEADER_MIXED, HEADER_BLANK, BODY_SCENARIO }

PAGE_TITLE == Str(<<"P", "r", "e", "c", "i", "s", "i", "o", "n", " ", "T", "a", "l", "k">>)

ThreadPage(rows) == [title |-> PAGE_TITLE, rows |-> rows]

\* The links of the listing pages of the crawled forum.
THREAD_1 == Str(<<"t", "h", "r", "e", "a", "d", "-", "v", "i", "e", "w", ".", "a", "s", "p", "?", "t", "i", "d", "=", "1">>)
THREAD_2 == Str(<<"t", "h", "r", "e", "a", "d", "-", "v", "i", "e", "w", ".", "a", "s", "p", "?", "t", "i", "d", "=", "2", "&", "m", "i", "d", "=", "5">>)
OTHER_FORUM == Str(<<"f", "o", "r", "u", "m", "-", "v", "i", "e", "w", ".", "a", "s", "p", "?", "f", "i", "d", "=", "3">>)
MID_FIRST == Str(<<"t", "h", "r", "e", "a", "d", "-", "v", "i", "e", "w", ".", "a", "s", "p", "?", "m", "i", "d", "=", "9", "&", "t", "i", "d", "=", "3">>)

\* The crawled forum: its threads are listed at more than one offset, as
\* when the thread order shifts during the crawl.
Forum ==
  [listings |-> [b \in {0, 50, 100} |->
                   CASE b = 0 -> <<THREAD_1, OTHER_FORUM, THREAD_2>>
                     [] b = 50 -> <<THREAD_2, MID_FIRST>>
                     [] b = 100 -> <<THREAD_1>>],
   threads |-> [h \in {THREAD_1, THREAD_2} |->
                  IF h = THREAD_1
                    THEN ThreadPage(<<HEADER_SCENARIO, BODY_SCENARIO, HEADER_NESTED>>)
                    ELSE ThreadPage(<<HEADER_TWO, BODY_SCENARIO>>)]]

\* start_requests run to its end, no response handled.
InitStart ==
  /\ site = Forum
  /\ next_bookmark = RANGE_START
  /\ scheduled = EmptyBag /\ handled = EmptyBag /\ failed = EmptyBag
  /\ items = <<>>
  /\ FilesOff /\ CleanOff /\ RobertaOff /\ PredictOff /\ IdemOff

StartNext == IssueStartRequest(RANGE_STOP + RANGE_STEP)

SpecStart == InitStart /\ [][StartNext]_vars

\* A crawl of the forum: the engine issues the first listing requests and
\* delivers the responses in any order, or fails to.
SpiderNext ==
  \/ IssueStartRequest(MaxListings * RANGE_STEP)
  \/ HandleListing
  \/ HandleThread
  \/ FetchFails

SpecSpider == InitStart /\ [][SpiderNext]_vars

\* parse_thread run on the response to one request for a generated thread page.
InitThread ==
  /\ \E rows \in SeqsOf(PageRows, 1, MaxPageRows) :
       site = [listings |-> <<>>, threads |-> [h \in {THREAD_1} |-> ThreadPage(rows)]]
  /\ next_bookmark = RANGE_STOP
  /\ scheduled = SeqToBag(parse([url |-> ListingUrl(50), meta |-> [bookmark |-> 50],
                                 body |-> <<THREAD_1>>]))
  /\ handled = EmptyBag /\ failed = EmptyBag
  /\ items = <<>>
  /\ FilesOff /\ CleanOff /\ RobertaOff /\ PredictOff /\ IdemOff

ThreadNext == HandleThread \/ FetchFails

SpecThread == InitThread /\ [][ThreadNext]_vars


(***************************************************************************)
(* Properties                                                              *)
(***************************************************************************)

RECURSIVE SumOver(_, _)
\* The sum of f[x] over the elements x of the finite set S.
SumOver(S, f) ==
  IF S = {} THEN 0
  ELSE LET x == CHOOSE y \in S : TRUE IN f[x] + SumOver(S \ {x}, f)

\* C1: stage chaining.  The classifier reads the file the normalizer writes:
\* when the normalizer has run and the classifier, run after it, has read its
\* input, every record the classifier holds is a record of the file that
\* normalizer run wrote.  The code reads another path, so this fails.
C1_ClassifierReadsNormalizerOutput ==
  (clean_pc = "done" /\ roberta_pc \notin {"off", "start", "loaded"}) =>
    /\ ROBERTA_INPUT_PATH = CLEAN_OUTPUT_PATH
    /\ roberta_pc # "crashed" \/ fs[CLEAN_OUTPUT_PATH] = NoFile
    /\ roberta_pc = "read" => roberta_df = read_csv(fs[CLEAN_OUTPUT_PATH].rows)

\* The offsets 0, 50, 100, ..., 109950.
ListingOffsets == {50 * k : k \in 0..2199}

\* C2: start_requests issues exactly one listing-page request for each of the
\* offsets 0, 50, ..., 109950 in turn, each tagged with its offset as its
\* bookmark, none for another offset, and ends after the 2200th.  At a state
\* where the next offset is next_bookmark: the requests issued are listing
\* requests for offsets of the sequence below next_bookmark, tagged with
\* their offsets, no two alike, and as many as there are such offsets.
C2_StartRequests ==
  /\ next_bookmark \in ListingOffsets \cup {110000}
  /\ \A req \in BagToSet(scheduled) :
       /\ req.callback = "parse"
       /\ req.url = ListingUrl(req.meta.bookmark)
       /\ req.meta.bookmark \in 0..(next_bookmark - 1)
       /\ req.meta.bookmark % 50 = 0
  /\ BagCardinality(scheduled) = Cardinality(BagToSet(scheduled))
  /\ Cardinality(BagToSet(scheduled)) = next_bookmark \div 50
  /\ (ENABLED StartNext) <=> next_bookmark < 110000

\* start_requests has issued its requests for the offsets 0, 50 and 100.
C2_Witness ==
  /\ next_bookmark = 150
  /\ BagToSet(scheduled) =
       {[url |-> ListingUrl(b), callback |-> "parse", meta |-> [bookmark |-> b]] :
          b \in {0, 50, 100}}

\* The requests the callbacks have yielded, whatever became of them.
Yielded == scheduled (+) handled (+) failed

\* The anchors of the listing page at an offset of the forum.
ListingAnchors(b) == IF b \in DOMAIN site.listings THEN site.listings[b] ELSE <<>>

\* The thread-page request an anchor with link target href of the listing
\* page at offset b is to spawn.
ThreadRequest(href, b) ==
  [url |-> FollowUrl(href), callback |-> "parse_thread", meta |-> [bookmark |-> b]]

\* How many anchors of the handled listing pages are to spawn request req.
SpawnedBy(req) ==
  LET listings == {r \in BagToSet(handled) : r.callback = "parse"}
  IN  SumOver(listings,
        [r \in listings |->
           CopiesIn(r, handled) *
             Cardinality({k \in 1..Len(ListingAnchors(r.url.bookmark)) :
                /\ Contains(ListingAnchors(r.url.bookmark)[k], THREAD_LINK)
                /\ req = ThreadRequest(ListingAnchors(r.url.bookmark)[k], r.url.bookmark)})])

\* C3: bookmark propagation.  Every anchor of a handled listing page whose
\* link target contains thread-view.asp?tid= has spawned one thread-page
\* request tagged with the offset of that page, no other thread-page request
\* exists, and every emitted record carries the offset of a handled listing
\* page that has a link to its thread, never null, in any order of responses.
C3_BookmarkPropagation ==
  /\ \A req \in {r \in BagToSet(Yielded) : r.callback = "parse_thread"}
           \cup UNION {{ThreadRequest(ListingAnchors(r.url.bookmark)[k], r.url.bookmark) :
                          k \in {n \in 1..Len(ListingAnchors(r.url.bookmark)) :
                                   Contains(ListingAnchors(r.url.bookmark)[n], THREAD_LINK)}} :
                        r \in {q \in BagToSet(handled) : q.callback = "parse"}} :
       CopiesIn(req, Yielded) = SpawnedBy(req)
  /\ \A n \in 1..Len(items) :
       /\ items[n].bookmark \in ListingOffsets
       /\ \E r \in BagToSet(handled) :
            /\ r.callback = "parse"
            /\ r.url.bookmark = items[n].bookmark
            /\ \E k \in 1..Len(ListingAnchors(r.url.bookmark)) :
                 /\ Contains(ListingAnchors(r.url.bookmark)[k], THREAD_LINK)
                 /\ FollowUrl(ListingAnchors(r.url.bookmark)[k]) = items[n].thread_url

\* Records of one thread have been emitted with the offsets of the two
\* listing pages that link to it, the page at 50 handled before the one at 0.
C3_Witness ==
  /\ \E m, n \in 1..Len(items) :
       /\ m < n
       /\ items[m].thread_url = items[n].thread_url
       /\ items[m].bookmark = 50 /\ items[n].bookmark = 0
  /\ failed # EmptyBag

\* C4: batch alignment in predict_sentiment.  The batches start at strictly
\* increasing indices and follow one another without a gap or an overlap, so
\* that every text is in exactly one batch; the result has one row for each
\* text, row k the probabilities of texts[k]; and the merged frame pairs each
\* post with the probabilities of its own text.
C4_BatchAlignment ==
  /\ \A k \in 1..Len(batches) :
       /\ batches[k][1] = (IF k = 1 THEN 0 ELSE batches[k - 1][1] + batches[k - 1][2])
       /\ batches[k][2] >= 1
       /\ batches[k][1] + batches[k][2] <= Len(texts)
       /\ k > 1 => batches[k - 1][1] < batches[k][1]
  /\ Len(results) = (IF batches = <<>> THEN 0
                     ELSE batches[Len(batches)][1] + batches[Len(batches)][2])
  /\ \A k \in 1..Len(results) : k <= Len(texts) /\ results[k] = [probs_of |-> texts[k]]
  /\ roberta_pc \in {"predicted", "merged", "crashed"} =>
       /\ roberta_pc # "crashed"
       /\ Len(sentiment_df) = Len(texts)
       /\ \A k \in 1..Len(texts) : sentiment_df[k] = [probs_of |-> texts[k]]
  /\ roberta_pc = "merged" =>
       /\ Len(roberta_df) = Len(texts)
       /\ \A k \in 1..Len(roberta_df) :
            /\ roberta_df[k].post # NullRow
            /\ roberta_df[k].sentiment # NullRow
            /\ roberta_df[k].sentiment.probs_of = astype_str(roberta_df[k].post.clean_text)

\* Three texts in batches of two: a full batch and a shorter last one, merged.
C4_Witness ==
  /\ roberta_pc = "merged"
  /\ Len(texts) = 3 /\ batch_size = 2
  /\ batches = << <<0, 2>>, <<2, 1>> >>
  /\ roberta_df[1].post # roberta_df[3].post

\* The keyword filter has run and has left no post.
NoPrecisionPosts == roberta_pc \in {"filtered", "exited"} /\ roberta_df = <<>>

\* C5: if the keyword filter yields zero posts, the classifier halts: the
\* model is never called, the output file is neither created nor modified,
\* and the only step taken is the exit, after which no step is possible.
C5_EmptyFilterHalts ==
  /\ [](NoPrecisionPosts => model_calls = 0)
  /\ [][NoPrecisionPosts =>
          /\ roberta_pc = "filtered" /\ roberta_pc' = "exited"
          /\ model_calls' = 0
          /\ fs' = fs
          /\ roberta_df' = <<>>]_vars

\* The classifier has exited on a file of posts none of which passes the
\* filter, with the model loaded and the output of an earlier run in place.
C5_Witness ==
  /\ roberta_pc = "exited"
  /\ Len(fs[ROBERTA_INPUT_PATH].rows) >= 2
  /\ model_loaded /\ model_calls = 0
  /\ fs[ROBERTA_OUTPUT_PATH] = OLD_OUTPUT

\* C6: the normalizer's length filter.  The output file holds, in the order
\* of the input, the input records whose cleaned text has at least 20
\* characters and no other: each with its collector fields as in the input
\* and with its cleaned text as clean_text.
C6_LengthFilter ==
  clean_pc = "done" =>
    LET input == fs[CLEAN_INPUT_PATH].rows
        output == fs[CLEAN_OUTPUT_PATH].rows
        cleaned == [k \in 1..Len(input) |-> clean_text(read_csv(input)[k].post_text)]
        kept == SelectSeq([k \in 1..Len(input) |-> k], LAMBDA k : Len(cleaned[k]) >= 20)
    IN  /\ Len(output) = Len(kept)
        /\ \A n \in 1..Len(output) :
             /\ DOMAIN output[n] = DOMAIN input[kept[n]] \cup {"clean_text"}
             /\ \A c \in DOMAIN input[kept[n]] : output[n][c] = input[kept[n]][c]
             /\ output[n].clean_text = cleaned[kept[n]]
             /\ Len(output[n].clean_text) > 19

\* A record whose cleaned text has 20 characters is in the output and one
\* whose cleaned text has 19 characters, before it in the input, is not.
C6_Witness ==
  /\ clean_pc = "done"
  /\ fs[CLEAN_INPUT_PATH].rows = <<Post("3", RAW_LINKED), Post("2", RAW_DATED)>>
  /\ Len(clean_text(RAW_LINKED)) = 19
  /\ Len(fs[CLEAN_OUTPUT_PATH].rows) = 1
  /\ fs[CLEAN_OUTPUT_PATH].rows[1].post_id = Post("2", RAW_DATED).post_id
  /\ Len(fs[CLEAN_OUTPUT_PATH].rows[1].clean_text) = 20

\* Text x has phrase kw at position p as a whole word, whatever the case of
\* its letters: no word character next to it on either side.
WholeWordAt(x, kw, p) ==
  /\ p + Len(kw) - 1 <= Len(x)
  /\ \A k \in 1..Len(kw) : Lower(x[p + k - 1]) = Lower(kw[k])
  /\ p = 1 \/ ~IsWord(x[p - 1])
  /\ p + Len(kw) - 1 = Len(x) \/ ~IsWord(x[p + Len(kw)])

\* Text x contains one of the vocabulary phrases as a whole word.
HasPrecisionKeyword(x) ==
  /\ x # Null
  /\ \E n \in 1..Len(precision_keywords), p \in 1..Len(x) :
       WholeWordAt(x, precision_keywords[n], p)

\* C7: filter_precision_posts retains, in their input order, the posts whose
\* clean_text contains one of the 13 vocabulary phrases as a whole word,
\* whatever its case, and no other: a text with the word RTK is retained, a
\* text with RTK only inside RTKish is not, a null clean_text is not.
C7_KeywordFilter ==
  /\ Len(precision_keywords) = 13
  /\ HasPrecisionKeyword(CLEAN_RTK) /\ ~HasPrecisionKeyword(CLEAN_RTKISH)
  /\ roberta_pc = "filtered" =>
       roberta_df = SelectSeq(read_csv(fs[ROBERTA_INPUT_PATH].rows),
                              LAMBDA r : HasPrecisionKeyword(r.clean_text))

\* The filter has kept the RTK post out of an RTKish post, the RTK post and
\* a post with no clean_text.
C7_Witness ==
  /\ roberta_pc = "filtered"
  /\ fs[ROBERTA_INPUT_PATH].rows =
       <<Cleaned("2", CLEAN_RTKISH), Cleaned("1", CLEAN_RTK), Cleaned("3", CLEAN_EMPTY)>>
  /\ roberta_df = <<Cleaned("1", CLEAN_RTK)>>

\* Text s has no URL, no date or time token and no Edited by or Attachments
\* marker that clean_text_column would remove.
AlreadyClean(s) ==
  \A k \in 1..Len(s) :
    \A pat \in {"url", "date", "time", "edited", "attachments"} : MatchLen(pat, s, k) = 0

\* C8: cleaning is idempotent on already-clean text.  For an input with no
\* URL, no date or time token and no marker, clean_text_column applied twice
\* gives what it gives applied once.  The code repairs the encoding again on
\* the second pass, so this fails.
C8_CleaningIdempotent ==
  (cleaned_twice # <<>> /\ \A k \in 1..Len(series) : AlreadyClean(series[k])) =>
    cleaned_twice = cleaned_once

RECURSIVE ProfileAnchorsBelow(_)
\* The view-profile anchors anywhere below element n, in document order.
ProfileAnchorsBelow(n) ==
  IF IsText(n) THEN <<>>
  ELSE Flatten([k \in 1..Len(n.kids) |->
                  (IF IsProfileAnchor(n.kids[k]) THEN <<n.kids[k]>> ELSE <<>>)
                    \o ProfileAnchorsBelow(n.kids[k])])

\* The post rows of the thread page a record comes from, in document order.
PostRowsOf(item) ==
  SelectSeq(site.threads[item.thread_url.href].rows, IsPostRow)

\* The records of the one handled thread page stand in the order of its rows.
RowOf(n) == PostRowsOf(items[n])[n]

\* C9 as stated: the username is the trimmed text of the first view-profile
\* anchor anywhere within the header cell, nested or not, and null only when
\* the header cell has no such anchor.
C9_FirstAnchorAnywhere ==
  \A n \in 1..Len(items) :
    LET anchors == Flatten([c \in 1..Len(HeaderCells(RowOf(n))) |->
                              ProfileAnchorsBelow(HeaderCells(RowOf(n))[c])])
    IN  IF anchors = <<>> THEN items[n].username = Null
        ELSE /\ items[n].username # Null
             /\ items[n].username = strip(Flatten(TextNodes(anchors[1])))

\* The text nodes that are children of view-profile anchors that are
\* children of the header cells of a row: <<cell, child, grandchild>>.
ChildAnchorTexts(tr) ==
  UNION {UNION {{<<c, a, t>> : t \in {u \in 1..Len(tr[c].kids[a].kids) :
                                       IsText(tr[c].kids[a].kids[u])}} :
                  a \in {b \in 1..Len(tr[c].kids) : IsProfileAnchor(tr[c].kids[b])}} :
           c \in {d \in 1..Len(tr) : IsHeaderCell(tr[d])}}

\* Position p comes before position q in document order.
Before(p, q) ==
  \/ p[1] < q[1]
  \/ p[1] = q[1] /\ p[2] < q[2]
  \/ p[1] = q[1] /\ p[2] = q[2] /\ p[3] < q[3]

\* C9: the username is the trimmed text of the first text node that is a
\* child of a view-profile anchor that is itself a child of the header cell;
\* it is null exactly when no such anchor has a text node of its own, be
\* there view-profile anchors nested deeper in the header cell or not.
C9_FirstChildAnchorText ==
  \A n \in 1..Len(items) :
    /\ items[n].username = Null <=> ChildAnchorTexts(RowOf(n)) = {}
    /\ \A p \in ChildAnchorTexts(RowOf(n)) :
         (\A q \in ChildAnchorTexts(RowOf(n)) : ~Before(q, p)) =>
           items[n].username = strip(RowOf(n)[p[1]].kids[p[2]].kids[p[3]].text)

\* A header cell with a nested profile anchor before a child one gives the
\* name of the child one, and a header cell with only a nested one gives null.
C9_Witness ==
  /\ Len(items) = 2
  /\ site.threads[THREAD_1].rows = <<HEADER_MIXED, HEADER_NESTED>>
  /\ items[1].username = Str(<<"E", "d">>)
  /\ items[2].username = Null

\* The records parse_thread emits for the response to request req.
RecordsOf(req) ==
  LET page == site.threads[req.url.href]
      rows == SelectSeq([k \in 1..Len(page.rows) |-> k], LAMBDA k : IsPostRow(page.rows[k]))
  IN  [n \in 1..Len(rows) |->
         [thread_id |-> tid_of(QueryOf(req.url.href)),
          thread_title |-> page.title,
          thread_url |-> req.url,
          bookmark |-> req.meta.bookmark,
          post_id |-> post_id_of(header_text_of(page.rows[rows[n]])),
          username |-> username_of(page.rows[rows[n]]),
          post_date |-> post_date_of(header_text_of(page.rows[rows[n]])),
          post_text |-> post_text_of(page.rows, rows[n])]]

\* How many times the handled thread responses give record r.
EmittedFor(r) ==
  LET threads == {req \in BagToSet(handled) : req.callback = "parse_thread"}
  IN  SumOver(threads,
        [req \in threads |->
           CopiesIn(req, handled) *
             Cardinality({n \in 1..Len(RecordsOf(req)) : RecordsOf(req)[n] = r})])

\* C10: response-order independence.  In whatever order the responses are
\* delivered, the multiset of the emitted records is the sum, over the thread
\* responses delivered, of the records of each response taken alone: a
\* function of the page and its request, not of what was handled before.  A
\* request whose fetch failed gives no record and changes no other record.
C10_OrderIndependence ==
  \A r \in {items[n] : n \in 1..Len(items)}
           \cup UNION {{RecordsOf(req)[n] : n \in 1..Len(RecordsOf(req))} :
                         req \in {q \in BagToSet(handled) : q.callback = "parse_thread"}} :
       CopiesIn(r, SeqToBag(items)) = EmittedFor(r)

\* Two thread responses have been handled, the one requested from the later
\* listing page first, and the fetch of another thread page has failed.
C10_Witness ==
  /\ \E m, n \in 1..Len(items) :
       m < n /\ items[m].thread_id # items[n].thread_id /\ items[m].bookmark > items[n].bookmark
  /\ \E req \in BagToSet(failed) : req.callback = "parse_thread"
  /\ BagCardinality(handled) >= 4

=============================================================================
